---- MODULE Spec2Model ----
(***************************************************************************)
(* Model of custom_components/bromont/osm_data.py (class OSMTrailData):    *)
(* the OSM trail catalog built by _parse_trails, the tiered resolver       *)
(* match_trail, the two name normalizers and the similarity scorer.        *)
(*                                                                         *)
(* A Python str is a sequence of one-character strings.  Characters        *)
(* outside ASCII, and the backtick, are written by name ("eacute",         *)
(* "oelig", "ndash", "backtick").                                          *)
(* The only whitespace character of the model is the space.                *)
(* A float in [0,1] is an exact fraction <<numerator, denominator>>.       *)
(***************************************************************************)
EXTENDS Integers, Sequences, FiniteSets, TLC

VARIABLES
    trails,     \* OSMTrailData.trails: insertion-ordered dict, a sequence of [key, info]
    pc,         \* position of the caller: which call, if any, has just returned
    args,       \* arguments of the call in progress or just returned
    ret         \* value returned by the last call

vars == <<trails, pc, args, ret>>

\* Python None: a value that is no str, since every character of a str is a
\* one-character string (or a named character, none of them named "None")
None == <<"None">>

(***************************************************************************)
(* str primitives                                                          *)
(***************************************************************************)
UpperChars == <<"A","B","C","D","E","F","G","H","I","J","K","L","M",
                "N","O","P","Q","R","S","T","U","V","W","X","Y","Z","Eacute">>

LowerChars == <<"a","b","c","d","e","f","g","h","i","j","k","l","m",
                "n","o","p","q","r","s","t","u","v","w","x","y","z","eacute">>

Digits == {"0","1","2","3","4","5","6","7","8","9"}

\* Python evaluates eagerly: v is computed before e, whose value this is
Then(v, e) == IF v = v THEN e ELSE e

\* a local variable of the code: v is computed once and F is given its value
Bind(v, F(_)) == CHOOSE r \in {F(x) : x \in {v}} : TRUE

Min(S) == CHOOSE x \in S : \A y \in S : x <= y

Max(S) == CHOOSE x \in S : \A y \in S : y <= x

\* str.isspace for one character
IsSpace(c) == c = " "

\* str.lower for one character
LowerChar(c) ==
    IF \E i \in 1..Len(UpperChars) : UpperChars[i] = c
    THEN LowerChars[CHOOSE i \in 1..Len(UpperChars) : UpperChars[i] = c]
    ELSE c

\* str.lower
Lower(s) == [i \in 1..Len(s) |-> LowerChar(s[i])]

\* s[n:]
Drop(s, n) == SubSeq(s, n + 1, Len(s))

\* s[:n]
Take(s, n) == SubSeq(s, 1, n)

\* str.strip(): s between its first and its last non-whitespace character
Strip(s) ==
    LET solid == {i \in 1..Len(s) : ~IsSpace(s[i])}
    IN  IF solid = {} THEN <<>> ELSE SubSeq(s, Min(solid), Max(solid))

\* str.startswith / str.endswith
StartsWith(s, p) == Len(p) <= Len(s) /\ Take(s, Len(p)) = p

EndsWith(s, p) == Len(p) <= Len(s) /\ Drop(s, Len(s) - Len(p)) = p

\* str.find: index (from 1) of the first occurrence of p in s, 0 when absent
Find(s, p) ==
    LET hits == {i \in 1..(Len(s) - Len(p) + 1) : SubSeq(s, i, i + Len(p) - 1) = p}
    IN  IF hits = {} THEN 0 ELSE Min(hits)

\* p in s
Contains(s, p) == p = <<>> \/ Find(s, p) > 0

\* str.replace(old, new): non-overlapping occurrences, left to right
RECURSIVE Replace(_, _, _)
Replace(s, old, new) ==
    Bind(Find(s, old), LAMBDA i :
        IF i = 0 THEN s
        ELSE Take(s, i - 1) \o new \o Replace(Drop(s, i - 1 + Len(old)), old, new))

\* str.split(): the whitespace-separated words of s, in order
Split(s) ==
    LET starts == {i \in 1..Len(s) : ~IsSpace(s[i]) /\ (i = 1 \/ IsSpace(s[i - 1]))}
        ends   == {i \in 1..Len(s) : ~IsSpace(s[i]) /\ (i = Len(s) \/ IsSpace(s[i + 1]))}
        Kth(S, k) == CHOOSE i \in S : Cardinality({j \in S : j < i}) = k - 1
    IN  [k \in 1..Cardinality(starts) |-> SubSeq(s, Kth(starts, k), Kth(ends, k))]

\* " ".join(words)
RECURSIVE Join(_)
Join(words) ==
    IF Len(words) = 0 THEN <<>>
    ELSE IF Len(words) = 1 THEN words[1]
    ELSE words[1] \o <<" ">> \o Join(Tail(words))

\* length of the longest suffix of s whose characters all lie in class
TrailingRun(s, class) == Len(s) - Max({0} \cup {i \in 1..Len(s) : s[i] \notin class})

\* re.sub(r'\s+[class]+$', '', s): a trailing run of class characters and the
\* whitespace before it are removed; s is returned when there is no such run
\* or no whitespace precedes it
SubTrailingClass(s, class) ==
    LET k == TrailingRun(s, class)
        w == TrailingRun(Take(s, Len(s) - k), {" "})
    IN  IF k > 0 /\ w > 0 THEN Take(s, Len(s) - k - w) ELSE s

\* re.sub(r'\s+(ter)$', '', s, flags=re.IGNORECASE): the rule without "bis"
SubTrailingTer(s) ==
    LET low == Lower(s)
        w == TrailingRun(Take(s, Len(s) - 3), {" "})
    IN  IF EndsWith(low, <<"t","e","r">>) /\ w > 0 THEN Take(s, Len(s) - 3 - w) ELSE s

\* re.sub(r'\s+(bis|ter)$', '', s, flags=re.IGNORECASE)
SubTrailingBisTer(s) ==
    LET low == Lower(s)
        w == TrailingRun(Take(s, Len(s) - 3), {" "})
    IN  IF (EndsWith(low, <<"b","i","s">>) \/ EndsWith(low, <<"t","e","r">>)) /\ w > 0
        THEN Take(s, Len(s) - 3 - w)
        ELSE s

(***************************************************************************)
(* _normalize_trail_name                                                    *)
(***************************************************************************)
\* prefixes_to_remove, in list order
PrefixesToRemove == <<
    <<"p","i","s","t","e"," ">>,
    <<"p","i","s","t","e"," ","d","e"," ">>,
    <<"p","i","s","t","e"," ","d","u"," ">>,
    <<"p","i","s","t","e"," ","d","e","s"," ">>,
    <<"t","r","a","i","l"," ">>,
    <<"l","a"," ">>,
    <<"l","e"," ">>,
    <<"l","e","s"," ">>,
    <<"l","'">>,
    <<"s","e","n","t","i","e","r"," ">>,
    <<"s","e","n","t","i","e","r"," ","d","e"," ">>,
    <<"s","e","n","t","i","e","r"," ","d","u"," ">>,
    <<"s","e","n","t","i","e","r"," ","d","e","s"," ">> >>

RomanUpper == {"I","V","X"}

\* name.split("|")[-1].strip(): the segment after the last "|"
StripAreaSuffixLast(name) ==
    LET pipes == {i \in 1..Len(name) : name[i] = "|"}
    IN  IF pipes = {} THEN Strip(name) ELSE Strip(Drop(name, Max(pipes)))

\* name.split("|")[0].strip() when "|" in name, else name.strip()
StripAreaSuffix(name) ==
    LET i == Find(name, <<"|">>)
    IN  IF i > 0 THEN Strip(Take(name, i - 1)) ELSE Strip(name)

\* the for loop over prefixes_to_remove: the first prefix, in list order, that
\* name.lower() starts with is cut off; then break
RemovePrefix(name) ==
    LET low == Lower(name)
        hits == {i \in 1..Len(PrefixesToRemove) : StartsWith(low, PrefixesToRemove[i])}
    IN  IF hits = {} THEN name
        ELSE Drop(name, Len(PrefixesToRemove[Min(hits)]))

\* the Roman and bis/ter rules alone, without the numeral rule
RemoveQualifiersNoNumeral(name) ==
    Bind(SubTrailingClass(name, RomanUpper), LAMBDA noroman :
        SubTrailingBisTer(noroman))

\* the three re.sub calls, each applied once, in this order
RemoveQualifiers(name) ==
    Bind(SubTrailingClass(name, Digits), LAMBDA nonum :
    Bind(SubTrailingClass(nonum, RomanUpper), LAMBDA noroman :
        SubTrailingBisTer(noroman)))

NormalizeTrailName(name) ==
    Bind(StripAreaSuffix(name), LAMBDA area :
    Bind(RemovePrefix(area), LAMBDA noprefix :
    Bind(RemoveQualifiers(noprefix), LAMBDA noqual :
        Strip(noqual))))

(***************************************************************************)
(* _normalize_for_comparison                                                *)
(***************************************************************************)
\* french_replacements
FrenchReplacements == <<
    <<<<"oelig">>, <<"o","e">>>>,
    <<<<"aelig">>, <<"a","e">>>>,
    <<<<"ccedil">>, <<"c">>>>,
    <<<<"ntilde">>, <<"n">>>> >>

\* unicodedata.normalize('NFD', c) without its combining marks (category Mn)
Unaccent(c) ==
    CASE c = "eacute" -> "e"
      [] c = "egrave" -> "e"
      [] c = "ecirc"  -> "e"
      [] c = "agrave" -> "a"
      [] c = "ocirc"  -> "o"
      [] OTHER -> c

\* the two chains of str.replace that turn quotes and dashes into spaces
SpacedChars == {"'", "backtick", "-", "ndash", "mdash", "_"}

\* articles, in list order
Articles == <<
    <<"l","e"," ">>,
    <<"l","a"," ">>,
    <<"l","e","s"," ">>,
    <<"l"," ">>,
    <<"d","e"," ">>,
    <<"d","u"," ">>,
    <<"d","e","s"," ">>,
    <<"d"," ">> >>

RomanLower == {"i","v","x"}

\* \w: letters, digits and the underscore
IsWord(c) ==
    \/ c \in Digits
    \/ c = "_"
    \/ \E i \in 1..Len(LowerChars) : c = LowerChars[i] \/ c = UpperChars[i]
    \/ c \in {"egrave", "ecirc", "agrave", "ocirc", "oelig", "aelig", "ccedil", "ntilde"}

RECURSIVE ReplaceEach(_, _)
ReplaceEach(name, table) ==
    IF table = <<>> THEN name
    ELSE Bind(Replace(name, Head(table)[1], Head(table)[2]), LAMBDA next :
             ReplaceEach(next, Tail(table)))

\* the for loop over articles: cut the article off the start, then replace
\* every ' ' + article by ' '
RECURSIVE RemoveArticles(_, _)
RemoveArticles(name, arts) ==
    IF arts = <<>> THEN name
    ELSE Bind(Head(arts), LAMBDA a :
         Bind(IF StartsWith(name, a) THEN Drop(name, Len(a)) ELSE name, LAMBDA cut :
         Bind(Replace(cut, <<" ">> \o a, <<" ">>), LAMBDA next :
             RemoveArticles(next, Tail(arts)))))

\* re.sub(r'[^\w\s]', '', name)
RemovePunctuation(name) == SelectSeq(name, LAMBDA c : IsWord(c) \/ IsSpace(c))

NormalizeForComparison(name) ==
    Bind(Strip(Lower(name)), LAMBDA low :
    Bind(ReplaceEach(low, FrenchReplacements), LAMBDA french :
    Bind([i \in 1..Len(french) |-> Unaccent(french[i])], LAMBDA plain :
    Bind([i \in 1..Len(plain) |-> IF plain[i] \in SpacedChars THEN " " ELSE plain[i]], LAMBDA spaced :
    Bind(RemoveArticles(spaced, Articles), LAMBDA noart :
    Bind(RemovePunctuation(noart), LAMBDA nopunct :
    Bind(SubTrailingClass(nopunct, Digits), LAMBDA nonum :
    Bind(SubTrailingClass(nonum, RomanLower), LAMBDA noroman :
        Join(Split(noroman))))))))))

\* the spec's normalize: the resolver's normalization followed by the comparison form
Normalize(s) ==
    Bind(NormalizeTrailName(s), LAMBDA resolved : NormalizeForComparison(resolved))
(***************************************************************************)
(* Similarity scoring.  A score is the exact fraction <<n, d>>, d > 0, in  *)
(* lowest terms; the code computes the same quotients in floating point.   *)
(***************************************************************************)
RECURSIVE Gcd(_, _)
Gcd(a, b) == IF b = 0 THEN a ELSE Gcd(b, a % b)

Frac(n, d) == LET g == Gcd(n, d) IN <<n \div g, d \div g>>

Zero == <<0, 1>>

One == <<1, 1>>

FracLess(x, y) == x[1] * y[2] < y[1] * x[2]

\* the inner loop of _levenshtein_similarity: cur holds current_row[0..j-1]
\* and is extended to the whole row i
RECURSIVE FillRow(_, _, _, _, _)
FillRow(cur, prev, i, s1, s2) ==
    LET j      == Len(cur)
        add    == prev[j + 1] + 1
        delete == cur[j] + 1
        change == prev[j] + (IF s1[i] # s2[j] THEN 1 ELSE 0)
        next   == Append(cur, Min({add, delete, change}))
    IN  IF j > Len(s2) THEN cur ELSE Then(next, FillRow(next, prev, i, s1, s2))

\* the outer loop: the row after the last character of s1
RECURSIVE LastRow(_, _, _, _)
LastRow(row, i, s1, s2) ==
    IF i > Len(s1) THEN row
    ELSE Bind(FillRow(<<i>>, row, i, s1, s2), LAMBDA next : LastRow(next, i + 1, s1, s2))

\* the edit distance as the code computes it: the longer string is s1
Distance(a, b) ==
    LET s1 == IF Len(a) < Len(b) THEN b ELSE a
        s2 == IF Len(a) < Len(b) THEN a ELSE b
    IN  LastRow([j \in 1..(Len(s2) + 1) |-> j - 1], 1, s1, s2)[Len(s2) + 1]

\* _levenshtein_similarity with an equality shortcut ahead of the emptiness test
LevenshteinEqualFirst(s1, s2) ==
    IF s1 = s2 THEN One
    ELSE IF s1 = <<>> \/ s2 = <<>> THEN Zero
    ELSE Bind(Distance(s1, s2), LAMBDA distance :
         Bind(IF Len(s1) < Len(s2) THEN Len(s2) ELSE Len(s1), LAMBDA max_len :
             Frac(max_len - distance, max_len)))

\* _levenshtein_similarity with the distance taken over the shorter length
LevenshteinOverShorter(s1, s2) ==
    IF s1 = <<>> \/ s2 = <<>> THEN Zero
    ELSE Bind(Distance(s1, s2), LAMBDA distance :
         Bind(IF Len(s1) < Len(s2) THEN Len(s1) ELSE Len(s2), LAMBDA min_len :
             Frac(min_len - distance, min_len)))

LevenshteinSimilarity(s1, s2) ==
    IF s1 = <<>> \/ s2 = <<>> THEN Zero
    ELSE Bind(Distance(s1, s2), LAMBDA distance :
         Bind(IF Len(s1) < Len(s2) THEN Len(s2) ELSE Len(s1), LAMBDA max_len :
             Frac(max_len - distance, max_len)))

\* set(name.split())
Tokens(name) == LET words == Split(name) IN {words[i] : i \in 1..Len(words)}

\* the overlap measured against the first name's tokens instead of the union
TokenOverFirst(name1, name2) ==
    Bind(Tokens(name1), LAMBDA tokens1 :
    Bind(Tokens(name2), LAMBDA tokens2 :
        IF tokens1 = {} \/ tokens2 = {} THEN Zero
        ELSE Frac(Cardinality(tokens1 \cap tokens2), Cardinality(tokens1))))

TokenSimilarity(name1, name2) ==
    Bind(Tokens(name1), LAMBDA tokens1 :
    Bind(Tokens(name2), LAMBDA tokens2 :
        IF tokens1 = {} \/ tokens2 = {} THEN Zero
        ELSE Frac(Cardinality(tokens1 \cap tokens2), Cardinality(tokens1 \cup tokens2))))

\* the rules of _french_phonetic that are plain substrings, in list order
PhoneticRules == <<
    <<<<"p","h">>, <<"f">>>>,
    <<<<"q","u">>, <<"k">>>>,
    <<<<"c","h">>, <<"s","h">>>>,
    <<<<"e","a","u">>, <<"o">>>>,
    <<<<"a","u">>, <<"o">>>>,
    <<<<"o","i">>, <<"w","a">>>>,
    <<<<"o","u">>, <<"u">>>>,
    <<<<"a","i","n">>, <<"i","n">>>>,
    <<<<"e","i","n">>, <<"i","n">>>>,
    <<<<"t","i","o","n">>, <<"s","i","o","n">>>> >>

\* re.sub(r'tail$', replacement, text) for a literal tail
SubAtEnd(text, tail, replacement) ==
    IF EndsWith(text, tail) THEN Take(text, Len(text) - Len(tail)) \o replacement ELSE text

FrenchPhonetic(text) ==
    Bind(ReplaceEach(Lower(text), PhoneticRules), LAMBDA inner :
    Bind(SubAtEnd(inner, <<"x">>, <<"s">>), LAMBDA x_end :
    Bind(IF EndsWith(x_end, <<"s">>) \/ EndsWith(x_end, <<"z">>)
         THEN Take(x_end, Len(x_end) - 1)
         ELSE x_end, LAMBDA sz_end :
    Bind(SubAtEnd(sz_end, <<"e">>, <<>>), LAMBDA e_end :
    Bind(SubAtEnd(e_end, <<"e","n","t">>, <<>>), LAMBDA ent :
        SelectSeq(ent, LAMBDA c : c # "h"))))))

PhoneticSimilarity(name1, name2) ==
    Bind(FrenchPhonetic(name1), LAMBDA p1 :
    Bind(FrenchPhonetic(name2), LAMBDA p2 :
        LevenshteinSimilarity(p1, p2)))

\* the variant lists of difficulty_map, in the order of its keys
DifficultyMap == <<
    {<<"e","a","s","y">>, <<"g","r","e","e","n">>, <<"b","e","g","i","n","n","e","r">>, <<"f","a","c","i","l","e">>, <<"v","e","r","t">>},
    {<<"i","n","t","e","r","m","e","d","i","a","t","e">>, <<"b","l","u","e">>, <<"i","n","t","e","r","m","e","d">>, <<"i","n","t","e","r","m","e","d","i","a","i","r","e">>, <<"b","l","e","u">>},
    {<<"d","i","f","f","i","c","u","l","t">>, <<"b","l","a","c","k">>, <<"d","i","f","f","i","c","i","l","e">>, <<"n","o","i","r">>, <<"a","d","v","a","n","c","e","d">>},
    {<<"e","x","p","e","r","t">>, <<"d","o","u","b","l","e","-","b","l","a","c","k">>, <<"t","d","i","f","f","i","c","i","l","e">>, <<"t","r","e","s","-","d","i","f","f","i","c","i","l","e">>, <<"e","x","p","e","r","t">>} >>

\* bool(x) of an optional str
Truthy(x) == x # None /\ x # <<>>

\* the same-category test alone, without the direct comparison
DifficultiesMatchTiersOnly(diff1, diff2) ==
    LET d1_norm == Strip(Lower(diff1))
        d2_norm == Strip(Lower(diff2))
    IN  IF ~Truthy(diff1) \/ ~Truthy(diff2) THEN FALSE
        ELSE \E c \in 1..Len(DifficultyMap) : d1_norm \in DifficultyMap[c] /\ d2_norm \in DifficultyMap[c]

DifficultiesMatch(diff1, diff2) ==
    LET d1_norm == Strip(Lower(diff1))
        d2_norm == Strip(Lower(diff2))
    IN  IF ~Truthy(diff1) \/ ~Truthy(diff2) THEN FALSE
        ELSE \/ d1_norm = d2_norm
             \/ \E c \in 1..Len(DifficultyMap) : d1_norm \in DifficultyMap[c] /\ d2_norm \in DifficultyMap[c]

\* the weights, in tenths
LevWeight == 4

TokenWeight == 3

PhoneticWeight == 2

DifficultyWeight == 1

\* sum(s * w for s, w in zip(scores, weights)), in tenths
RECURSIVE WeightedSum(_)
WeightedSum(pairs) ==
    IF pairs = <<>> THEN Zero
    ELSE LET s == Head(pairs)[1]
             w == Head(pairs)[2]
             r == WeightedSum(Tail(pairs))
         IN  Frac(w * s[1] * r[2] + r[1] * s[2], s[2] * r[2])

\* sum(weights), in tenths
RECURSIVE TotalWeight(_)
TotalWeight(pairs) == IF pairs = <<>> THEN 0 ELSE Head(pairs)[2] + TotalWeight(Tail(pairs))

\* 1.0 if self._difficulties_match(difficulty1, difficulty2) else 0.0
DifficultyScore(difficulty1, difficulty2) ==
    IF DifficultiesMatch(difficulty1, difficulty2) THEN One ELSE Zero

\* the weighted sum divided by 1.0 whether or not the difficulty takes part
CalculateSimilarityScoreFixed(name1, name2, difficulty1, difficulty2) ==
    Bind(LevenshteinSimilarity(name1, name2), LAMBDA lev_score :
    Bind(TokenSimilarity(name1, name2), LAMBDA token_score :
    Bind(PhoneticSimilarity(name1, name2), LAMBDA phonetic_score :
    Bind(<< <<lev_score, LevWeight>>, <<token_score, TokenWeight>>,
            <<phonetic_score, PhoneticWeight>> >>, LAMBDA name_scores :
    Bind(IF Truthy(difficulty1) /\ Truthy(difficulty2)
         THEN Append(name_scores,
                     <<DifficultyScore(difficulty1, difficulty2), DifficultyWeight>>)
         ELSE name_scores, LAMBDA scores :
    Bind(WeightedSum(scores), LAMBDA sum :
        Frac(sum[1], sum[2] * 10)))))))

CalculateSimilarityScore(name1, name2, difficulty1, difficulty2) ==
    Bind(LevenshteinSimilarity(name1, name2), LAMBDA lev_score :
    Bind(TokenSimilarity(name1, name2), LAMBDA token_score :
    Bind(PhoneticSimilarity(name1, name2), LAMBDA phonetic_score :
    Bind(<< <<lev_score, LevWeight>>, <<token_score, TokenWeight>>,
            <<phonetic_score, PhoneticWeight>> >>, LAMBDA name_scores :
    Bind(IF Truthy(difficulty1) /\ Truthy(difficulty2)
         THEN Append(name_scores,
                     <<DifficultyScore(difficulty1, difficulty2), DifficultyWeight>>)
         ELSE name_scores, LAMBDA scores :
    Bind(WeightedSum(scores), LAMBDA sum :
        Frac(sum[1], sum[2] * TotalWeight(scores))))))))
(***************************************************************************)
(* _remove_common_suffixes and _names_similar                              *)
(***************************************************************************)
\* suffixes, in list order
CommonSuffixes == <<
    <<" ","p","r","k">>,
    <<" ","p","a","r","k">>,
    <<" ","t","r","a","i","l">>,
    <<" ","p","i","s","t","e">> >>

\* the for loop: every suffix of the list, in order, is cut off when present
RECURSIVE RemoveSuffixes(_, _)
RemoveSuffixes(name, suffixes) ==
    IF suffixes = <<>> THEN name
    ELSE Bind(Head(suffixes), LAMBDA suffix :
         Bind(IF EndsWith(name, suffix)
              THEN Strip(Take(name, Len(name) - Len(suffix)))
              ELSE name, LAMBDA next :
             RemoveSuffixes(next, Tail(suffixes))))

RemoveCommonSuffixes(name) == RemoveSuffixes(name, CommonSuffixes)

\* the similarity threshold 0.75 as the fraction 3/4
Threshold == <<3, 4>>

\* _names_similar admitting a score only above the threshold
NamesSimilarAbove(name1, name2, difficulty1, difficulty2) ==
    Bind(NormalizeForComparison(name1), LAMBDA n1 :
    Bind(NormalizeForComparison(name2), LAMBDA n2 :
        IF n1 = n2 THEN TRUE
        ELSE IF Contains(n2, n1) \/ Contains(n1, n2) THEN TRUE
        ELSE IF RemoveCommonSuffixes(n1) = RemoveCommonSuffixes(n2) THEN TRUE
        ELSE Bind(CalculateSimilarityScore(n1, n2, difficulty1, difficulty2),
                  LAMBDA similarity_score : FracLess(Threshold, similarity_score))))

NamesSimilar(name1, name2, difficulty1, difficulty2) ==
    Bind(NormalizeForComparison(name1), LAMBDA n1 :
    Bind(NormalizeForComparison(name2), LAMBDA n2 :
        IF n1 = n2 THEN TRUE
        ELSE IF Contains(n2, n1) \/ Contains(n1, n2) THEN TRUE
        ELSE IF RemoveCommonSuffixes(n1) = RemoveCommonSuffixes(n2) THEN TRUE
        ELSE Bind(CalculateSimilarityScore(n1, n2, difficulty1, difficulty2),
                  LAMBDA similarity_score : ~FracLess(similarity_score, Threshold))))

(***************************************************************************)
(* The catalog: a Python dict keeps its keys in insertion order, and an    *)
(* assignment to an existing key keeps the key's place.                    *)
(***************************************************************************)
Keys(d) == {d[i].key : i \in 1..Len(d)}

\* d[key]
Get(d, key) == d[CHOOSE i \in 1..Len(d) : d[i].key = key].info

\* d.setdefault(key, info): an existing key keeps its value
PutIfAbsent(d, key, info) ==
    IF key \in {d[i].key : i \in 1..Len(d)} THEN d
    ELSE Append(d, [key |-> key, info |-> info])

\* d[key] = info
Put(d, key, info) ==
    IF key \in Keys(d)
    THEN [i \in 1..Len(d) |-> IF d[i].key = key THEN [key |-> key, info |-> info] ELSE d[i]]
    ELSE Append(d, [key |-> key, info |-> info])

RefPrefix == <<"r","e","f","_">>

\* the piste:type values _parse_trails accepts
PisteTypes == {
    <<"d","o","w","n","h","i","l","l">>,
    <<"n","o","r","d","i","c">>,
    <<"s","k","i","t","o","u","r">>,
    <<"s","l","e","d">>,
    <<"h","i","k","e">> }

\* tags.get(tag, "") of a tag that may be absent
TagOr(value, default) == IF value = None THEN default ELSE value

\* tags.get("name") or tags.get("piste:name") or tags.get("ref") or ""
FirstName(tags) ==
    IF Truthy(tags.name) THEN tags.name
    ELSE IF Truthy(tags.piste_name) THEN tags.piste_name
    ELSE IF Truthy(tags.ref) THEN tags.ref
    ELSE <<>>

\* [[node["lat"], node["lon"]] for node in geometry], None without geometry
Coordinates(geometry) ==
    IF geometry = <<>> THEN None
    ELSE [i \in 1..Len(geometry) |-> <<geometry[i].lat, geometry[i].lon>>]

\* the loop body without the test of piste:type
ParseElementAnyCategory(d, element, pos) ==
    LET tags       == element.tags
        trail_name == Strip(FirstName(tags))
        trail_ref  == Strip(TagOr(tags.ref, <<>>))
        trail_info == [osm_id      |-> element.id,
                       name        |-> trail_name,
                       ref         |-> trail_ref,
                       piste_type  |-> tags.piste_type,
                       difficulty  |-> tags.difficulty,
                       coordinates |-> Coordinates(element.geometry),
                       obj         |-> pos]
        named      == Put(d, Lower(trail_name), trail_info)
    IN  IF element.type = "way" /\ trail_name # <<>>
        THEN IF trail_ref # <<>> THEN Put(named, RefPrefix \o trail_ref, trail_info) ELSE named
        ELSE d

\* the loop body taking a way without piste:type as a piste
ParseElementMissingCategory(d, element, pos) ==
    LET tags       == element.tags
        trail_name == Strip(FirstName(tags))
        trail_ref  == Strip(TagOr(tags.ref, <<>>))
        trail_info == [osm_id      |-> element.id,
                       name        |-> trail_name,
                       ref         |-> trail_ref,
                       piste_type  |-> tags.piste_type,
                       difficulty  |-> tags.difficulty,
                       coordinates |-> Coordinates(element.geometry),
                       obj         |-> pos]
        named      == Put(d, Lower(trail_name), trail_info)
    IN  IF /\ element.type = "way"
           /\ (tags.piste_type = None \/ tags.piste_type \in PisteTypes)
           /\ trail_name # <<>>
        THEN IF trail_ref # <<>> THEN Put(named, RefPrefix \o trail_ref, trail_info) ELSE named
        ELSE d

\* the body of the second loop of _parse_trails for the element at position
\* pos; obj names the dict object trail_info created in this iteration
ParseElement(d, element, pos) ==
    LET tags       == element.tags
        piste_type == TagOr(tags.piste_type, <<>>)
        trail_name == Strip(FirstName(tags))
        trail_ref  == Strip(TagOr(tags.ref, <<>>))
        trail_info == [osm_id      |-> element.id,
                       name        |-> trail_name,
                       ref         |-> trail_ref,
                       piste_type  |-> tags.piste_type,
                       difficulty  |-> tags.difficulty,
                       coordinates |-> Coordinates(element.geometry),
                       obj         |-> pos]
        named      == Put(d, Lower(trail_name), trail_info)
    IN  IF element.type = "way" /\ piste_type \in PisteTypes /\ trail_name # <<>>
        THEN IF trail_ref # <<>> THEN Put(named, RefPrefix \o trail_ref, trail_info) ELSE named
        ELSE d

RECURSIVE ParseFrom(_, _, _)
ParseFrom(d, elements, pos) ==
    LET next == ParseElement(d, elements[pos], pos)
    IN  IF pos > Len(elements) THEN d
        ELSE Then(next, ParseFrom(next, elements, pos + 1))

\* _parse_trails(data) for data["elements"] = elements
ParseTrails(elements) == ParseFrom(<<>>, elements, 1)

(***************************************************************************)
(* match_trail.  The code returns the matched dict or None; the model      *)
(* also records the return statement taken (tier) and, for the fuzzy       *)
(* loop, best_score.                                                       *)
(***************************************************************************)
NoMatch == [tier |-> "NoMatch", entry |-> None, score |-> None]

\* normalized_name.lower().strip(), the key of the exact lookup
ExactKey(trail_name) == Strip(Lower(NormalizeTrailName(trail_name)))

\* the fuzzy loop keeping the last of the entries of greatest score
RECURSIVE FuzzyFromLastBest(_, _, _, _, _)
FuzzyFromLastBest(d, pos, best, normalized_name, difficulty) ==
    IF pos > Len(d) THEN best
    ELSE Bind(d[pos].key, LAMBDA osm_key :
         Bind(d[pos].info, LAMBDA osm_trail :
         Bind(osm_trail.difficulty, LAMBDA osm_difficulty :
             IF /\ ~StartsWith(osm_key, RefPrefix)
                /\ NamesSimilar(normalized_name, osm_trail.name, difficulty, osm_difficulty)
             THEN Bind(CalculateSimilarityScore(NormalizeForComparison(normalized_name),
                                                NormalizeForComparison(osm_trail.name),
                                                difficulty, osm_difficulty), LAMBDA score :
                      IF ~FracLess(score, best.score)
                      THEN FuzzyFromLastBest(d, pos + 1,
                                     [tier |-> "Fuzzy", entry |-> osm_trail, score |-> score],
                                     normalized_name, difficulty)
                      ELSE FuzzyFromLastBest(d, pos + 1, best, normalized_name, difficulty))
             ELSE FuzzyFromLastBest(d, pos + 1, best, normalized_name, difficulty))))

\* the fuzzy loop from position pos on, with best_match and best_score in best
RECURSIVE FuzzyFrom(_, _, _, _, _)
FuzzyFrom(d, pos, best, normalized_name, difficulty) ==
    IF pos > Len(d) THEN best
    ELSE Bind(d[pos].key, LAMBDA osm_key :
         Bind(d[pos].info, LAMBDA osm_trail :
         Bind(osm_trail.difficulty, LAMBDA osm_difficulty :
             IF /\ ~StartsWith(osm_key, RefPrefix)
                /\ NamesSimilar(normalized_name, osm_trail.name, difficulty, osm_difficulty)
             THEN Bind(CalculateSimilarityScore(NormalizeForComparison(normalized_name),
                                                NormalizeForComparison(osm_trail.name),
                                                difficulty, osm_difficulty), LAMBDA score :
                      IF FracLess(best.score, score)
                      THEN FuzzyFrom(d, pos + 1,
                                     [tier |-> "Fuzzy", entry |-> osm_trail, score |-> score],
                                     normalized_name, difficulty)
                      ELSE FuzzyFrom(d, pos + 1, best, normalized_name, difficulty))
             ELSE FuzzyFrom(d, pos + 1, best, normalized_name, difficulty))))

\* the tail of match_trail after both dict lookups missed: the fuzzy loop
FuzzyTier(d, normalized_name, difficulty) ==
    Bind(FuzzyFrom(d, 1, [tier |-> "NoMatch", entry |-> None, score |-> Zero],
                   normalized_name, difficulty), LAMBDA best :
        IF best.tier = "Fuzzy" THEN best ELSE NoMatch)

\* match_trail with the trail_number lookup ahead of the name lookup
MatchTrailReferenceFirst(d, trail_name, trail_number, difficulty) ==
    Bind(NormalizeTrailName(trail_name), LAMBDA normalized_name :
    Bind(Strip(Lower(normalized_name)), LAMBDA key :
        IF Truthy(trail_number) /\ (RefPrefix \o trail_number) \in Keys(d)
        THEN [tier |-> "Reference", entry |-> Get(d, RefPrefix \o trail_number), score |-> None]
        ELSE IF key \in Keys(d)
        THEN [tier |-> "Exact", entry |-> Get(d, key), score |-> None]
        ELSE FuzzyTier(d, normalized_name, difficulty)))

\* match_trail indexing self.trails[key] without the membership test: a key
\* that is absent raises KeyError
MatchTrailUnguarded(d, trail_name, trail_number, difficulty) ==
    Bind(NormalizeTrailName(trail_name), LAMBDA normalized_name :
    Bind(Strip(Lower(normalized_name)), LAMBDA key :
        IF key \in Keys(d)
        THEN [tier |-> "Exact", entry |-> Get(d, key), score |-> None]
        ELSE [tier |-> "KeyError", entry |-> None, score |-> None]))

MatchTrail(d, trail_name, trail_number, difficulty) ==
    Bind(NormalizeTrailName(trail_name), LAMBDA normalized_name :
    Bind(Strip(Lower(normalized_name)), LAMBDA key :
        IF key \in Keys(d)
        THEN [tier |-> "Exact", entry |-> Get(d, key), score |-> None]
        ELSE IF Truthy(trail_number) /\ (RefPrefix \o trail_number) \in Keys(d)
        THEN [tier |-> "Reference", entry |-> Get(d, RefPrefix \o trail_number), score |-> None]
        ELSE FuzzyTier(d, normalized_name, difficulty)))

(***************************************************************************)
(* Inputs.  Strings are built from pieces; the catalog from a pool of      *)
(* Overpass elements.                                                      *)
(***************************************************************************)
\* the concatenations of at most n pieces
RECURSIVE Concat(_, _)
Concat(pieces, n) ==
    IF n = 0 THEN {<<>>}
    ELSE LET shorter == Concat(pieces, n - 1)
         IN  shorter \cup {s \o p : s \in shorter, p \in pieces}

\* the sequences of at most n members of pool
RECURSIVE Lists(_, _)
Lists(pool, n) ==
    IF n = 0 THEN {<<>>}
    ELSE LET shorter == Lists(pool, n - 1)
         IN  shorter \cup {Append(l, x) : l \in shorter, x \in pool}

\* elements of an Overpass response
MaxElements == 2

ElementPool == {
    [type |-> "way", id |-> 7, geometry |-> <<>>,
     tags |-> [name |-> <<"M","i","a","m","i">>, piste_name |-> None, ref |-> <<"5">>,
              piste_type |-> <<"d","o","w","n","h","i","l","l">>, difficulty |-> <<"i","n","t","e","r","m","e","d","i","a","t","e">>]],
    [type |-> "way", id |-> 3, geometry |-> <<>>,
     tags |-> [name |-> <<"E","d","e","l","w","e","i","s","s">>, piste_name |-> None, ref |-> <<"7">>,
              piste_type |-> <<"d","o","w","n","h","i","l","l">>, difficulty |-> <<"e","a","s","y">>]],
    [type |-> "way", id |-> 9, geometry |-> <<>>,
     tags |-> [name |-> <<"M","i","a","m","i"," ","2">>, piste_name |-> None, ref |-> None,
              piste_type |-> <<"n","o","r","d","i","c">>, difficulty |-> <<"i","n","t","e","r","m","e","d","i","a","t","e">>]],
    [type |-> "way", id |-> 10, geometry |-> <<>>,
     tags |-> [name |-> <<"M","i","a","m","i"," ","I","I">>, piste_name |-> None, ref |-> None,
              piste_type |-> <<"d","o","w","n","h","i","l","l">>, difficulty |-> <<"e","a","s","y">>]],
    [type |-> "way", id |-> 4, geometry |-> <<>>,
     tags |-> [name |-> None, piste_name |-> None, ref |-> None,
              piste_type |-> <<"d","o","w","n","h","i","l","l">>, difficulty |-> None]] }

Responses == Lists(ElementPool, MaxElements)

\* a query that returned nothing (None), and a response whose parsing raises
Failures == {"no_data", "parse_error"}

RecordNames == {
    <<>>,
    <<"M","i","a","m","i">>,
    <<"M","i","a","m","i"," ","2">>,
    <<"E","d","e","l","w","e","i","s","s"," ","|"," ","M","i","d","i">>,
    <<"M","i","a","m","y">>,
    <<"r","e","f","_","7">> }

\* trail.get("number", ""): absent, empty, a ref of the catalog, an unknown one
RecordNumbers == {None, <<>>, <<"5">>, <<"9">>}

RecordDifficulties == {None, <<>>, <<"i","n","t","e","r","m","e","d","i","a","t","e">>, <<"e","a","s","y">>}

(***************************************************************************)
(* Spec: the catalog and the resolver.                                     *)
(***************************************************************************)
\* OSMTrailData.__init__
Init ==
    /\ trails = <<>>
    /\ pc = "idle"
    /\ args = None
    /\ ret = None

\* fetch_trails: at most max_retries = 2 queries; self.trails is assigned
\* only from a response that parsed
FetchTrails ==
    /\ pc = "idle"
    /\ pc' = "fetch_trails"
    /\ \/ \E r1 \in Responses :
            /\ trails' = ParseTrails(r1)
            /\ ret' = trails'
            /\ args' = [queries |-> 1]
       \/ \E r1 \in Failures, r2 \in Responses :
            /\ trails' = ParseTrails(r2)
            /\ ret' = trails'
            /\ args' = [queries |-> 2]
       \/ \E r1 \in Failures, r2 \in Failures :
            /\ trails' = trails
            /\ ret' = <<>>
            /\ args' = [queries |-> 2]

\* a call of match_trail that stores a fuzzy match under the key it looked up
MatchTrailCallCaching ==
    /\ pc = "idle"
    /\ \E trail_name \in RecordNames, trail_number \in RecordNumbers,
          difficulty \in RecordDifficulties :
            /\ args' = [trail_name |-> trail_name, trail_number |-> trail_number,
                        difficulty |-> difficulty]
            /\ ret' = MatchTrail(trails, trail_name, trail_number, difficulty)
            /\ trails' = IF ret'.tier = "Fuzzy"
                         THEN Put(trails, ExactKey(trail_name), ret'.entry)
                         ELSE trails
    /\ pc' = "match_trail"

\* a call of match_trail(trail_name, trail_number, difficulty)
MatchTrailCall ==
    /\ pc = "idle"
    /\ \E trail_name \in RecordNames, trail_number \in RecordNumbers,
          difficulty \in RecordDifficulties :
            /\ args' = [trail_name |-> trail_name, trail_number |-> trail_number,
                        difficulty |-> difficulty]
            /\ ret' = MatchTrail(trails, trail_name, trail_number, difficulty)
    /\ pc' = "match_trail"
    /\ UNCHANGED trails

\* the caller takes the returned value
Return ==
    /\ pc # "idle"
    /\ pc' = "idle"
    /\ args' = None
    /\ ret' = None
    /\ UNCHANGED trails

Next == FetchTrails \/ MatchTrailCall \/ Return

Spec == Init /\ [][Next]_vars

(***************************************************************************)
(* SpecNorm: the name normalization, applied to a name and then to its own *)
(* output.                                                                 *)
(***************************************************************************)
\* pieces of a raw trail name
MaxPieces == 3

NamePieces == {
    <<"M","i","a","m","i">>,
    <<"l","e">>,
    <<" ">>,
    <<" ","2">>,
    <<" ","I","I">>,
    <<" ","b","i","s">>,
    <<" ","|"," ">>,
    <<"p","i","s","t","e">>,
    <<" ","d","e"," ">> }

InitNorm ==
    /\ trails = <<>>
    /\ pc = "normalize"
    /\ args \in {[name |-> s, calls |-> 0, resolved |-> <<>>] :
                    s \in Concat(NamePieces, MaxPieces)}
    /\ ret = <<>>

\* normalize(name); the second call normalizes the output of the first;
\* resolved is what _normalize_trail_name returned on the way
NormalizeCall ==
    /\ pc = "normalize"
    /\ args.calls < 2
    /\ LET name == IF args.calls = 0 THEN args.name ELSE ret
       IN  /\ args' = [name |-> name, calls |-> args.calls + 1,
                       resolved |-> NormalizeTrailName(name)]
           /\ ret' = Normalize(name)
    /\ UNCHANGED <<trails, pc>>

NextNorm == NormalizeCall

SpecNorm == InitNorm /\ [][NextNorm]_vars

(***************************************************************************)
(* SpecScore: the similarity scorer on pairs of names and difficulties.    *)
(***************************************************************************)
\* pieces of a name in comparison form
MaxScorePieces == 2

ScorePieces == {
    <<"m","i","a","m","i">>,
    <<"e">>,
    <<" ","e">> }

\* pairs (difficulty1, difficulty2): absent, empty, same tier under two
\* spellings, different tiers
ScoreDifficulties == {
    <<None, None>>,
    <<None, <<"b","l","u","e">>>>,
    <<<<>>, <<"b","l","u","e">>>>,
    <<<<"b","l","u","e">>, <<"i","n","t","e","r","m","e","d","i","a","t","e">>>>,
    <<<<"b","l","u","e">>, <<"e","x","p","e","r","t">>>>,
    <<<<"e","x","p","e","r","t">>, <<"b","l","u","e">>>> }

InitScore ==
    /\ trails = <<>>
    /\ pc = "score"
    /\ args \in {[name1 |-> a, name2 |-> b, difficulty1 |-> d[1], difficulty2 |-> d[2]] :
                    a \in Concat(ScorePieces, MaxScorePieces),
                    b \in Concat(ScorePieces, MaxScorePieces),
                    d \in ScoreDifficulties}
    /\ ret = None

\* _calculate_similarity_score and the three name signals it combines
ScoreCall ==
    /\ pc = "score"
    /\ pc' = "scored"
    /\ ret' = [score    |-> CalculateSimilarityScore(args.name1, args.name2,
                                                     args.difficulty1, args.difficulty2),
               lev      |-> LevenshteinSimilarity(args.name1, args.name2),
               token    |-> TokenSimilarity(args.name1, args.name2),
               phonetic |-> PhoneticSimilarity(args.name1, args.name2),
               difficulty |-> IF Truthy(args.difficulty1) /\ Truthy(args.difficulty2)
                              THEN DifficultyScore(args.difficulty1, args.difficulty2)
                              ELSE None]
    /\ UNCHANGED <<trails, args>>

NextScore == ScoreCall

SpecScore == InitScore /\ [][NextScore]_vars

(***************************************************************************)
(* SpecDifficulty: the difficulty signal of _calculate_similarity_score on *)
(* pairs of labels, called with the labels in both orders.                 *)
(***************************************************************************)
\* labels of the four categories in several spellings and letter cases,
\* labels of no category, a blank label, the empty label and no label
DifficultyLabels == {
    None, <<>>, <<" ">>,
    <<"e","a","s","y">>, <<"G","r","e","e","n">>, <<"v","e","r","t"," ">>,
    <<"i","n","t","e","r","m","e","d","i","a","t","e">>, <<" ","B","l","e","u">>,
    <<"n","o","i","r">>, <<"e","x","p","e","r","t">>,
    <<"n","o","v","i","c","e">>, <<"N","o","v","i","c","e">>,
    <<"f","r","e","e","r","i","d","e">> }

InitDifficulty ==
    /\ trails = <<>>
    /\ pc = "difficulty"
    /\ args \in {[difficulty1 |-> d1, difficulty2 |-> d2] :
                    d1 \in DifficultyLabels, d2 \in DifficultyLabels}
    /\ ret = None

\* the difficulty branch of _calculate_similarity_score, for the two labels
\* as given and swapped; None when the branch is not taken
DifficultyCall ==
    /\ pc = "difficulty"
    /\ pc' = "difficulty_scored"
    /\ ret' = [match   |-> DifficultiesMatch(args.difficulty1, args.difficulty2),
               score   |-> IF Truthy(args.difficulty1) /\ Truthy(args.difficulty2)
                           THEN DifficultyScore(args.difficulty1, args.difficulty2)
                           ELSE None,
               swapped |-> IF Truthy(args.difficulty2) /\ Truthy(args.difficulty1)
                           THEN DifficultyScore(args.difficulty2, args.difficulty1)
                           ELSE None]
    /\ UNCHANGED <<trails, args>>

NextDifficulty == DifficultyCall

SpecDifficulty == InitDifficulty /\ [][NextDifficulty]_vars

(***************************************************************************)
(* SpecBuild: _parse_trails on sequences of Overpass elements.             *)
(***************************************************************************)
\* elements of a parsed response
MaxBuildElements == 3

\* the elements of ElementPool and: a way whose name and ref collide with
\* those of two other ways, a named way of an unlisted piste:type, a way
\* whose name begins with "ref_", a named relation, and four ways that
\* differ in which of name, piste:name, ref and piste:type they carry
BuildPool == ElementPool \cup {
    [type |-> "way", id |-> 8, geometry |-> <<[lat |-> 45, lon |-> 72], [lat |-> 46, lon |-> 72]>>,
     tags |-> [name |-> <<"M","I","A","M","I">>, piste_name |-> None, ref |-> <<"7">>,
              piste_type |-> <<"d","o","w","n","h","i","l","l">>, difficulty |-> <<"e","a","s","y">>]],
    [type |-> "way", id |-> 5, geometry |-> <<[lat |-> 45, lon |-> 72]>>,
     tags |-> [name |-> <<"P","a","r","c">>, piste_name |-> None, ref |-> None,
              piste_type |-> <<"s","n","o","w","_","p","a","r","k">>, difficulty |-> None]],
    [type |-> "way", id |-> 6, geometry |-> <<>>,
     tags |-> [name |-> <<"r","e","f","_","5">>, piste_name |-> None, ref |-> None,
              piste_type |-> <<"d","o","w","n","h","i","l","l">>, difficulty |-> None]],
    [type |-> "relation", id |-> 2, geometry |-> <<>>,
     tags |-> [name |-> <<"E","d","e","l","w","e","i","s","s">>, piste_name |-> None, ref |-> None,
              piste_type |-> <<"d","o","w","n","h","i","l","l">>, difficulty |-> None]],
    \* a way with piste:name and ref but no piste:type
    [type |-> "way", id |-> 11, geometry |-> <<>>,
     tags |-> [name |-> None, piste_name |-> <<"C","o","u","p","e">>, ref |-> <<"5">>,
              piste_type |-> None, difficulty |-> None]],
    \* an empty name tag and a piste:name
    [type |-> "way", id |-> 12, geometry |-> <<>>,
     tags |-> [name |-> <<>>, piste_name |-> <<"C","o","u","p","e">>, ref |-> <<"1","2">>,
              piste_type |-> <<"s","l","e","d">>, difficulty |-> None]],
    \* a ref alone
    [type |-> "way", id |-> 13, geometry |-> <<>>,
     tags |-> [name |-> None, piste_name |-> None, ref |-> <<"9">>,
              piste_type |-> <<"h","i","k","e">>, difficulty |-> None]],
    \* a blank name tag and a piste:name
    [type |-> "way", id |-> 14, geometry |-> <<>>,
     tags |-> [name |-> <<" ">>, piste_name |-> <<"C","o","u","p","e">>, ref |-> None,
              piste_type |-> <<"s","k","i","t","o","u","r">>, difficulty |-> None]] }

InitBuild ==
    /\ trails = <<>>
    /\ pc = "parse"
    /\ args \in {[elements |-> l] : l \in Lists(BuildPool, MaxBuildElements)}
    /\ ret = None

\* _parse_trails(data)
ParseCall ==
    /\ pc = "parse"
    /\ pc' = "parsed"
    /\ ret' = ParseTrails(args.elements)
    /\ UNCHANGED <<trails, args>>

NextBuild == ParseCall

SpecBuild == InitBuild /\ [][NextBuild]_vars

(***************************************************************************)
(* SpecSimilar: _names_similar on pairs of names and difficulties.         *)
(***************************************************************************)
SimilarNames == {
    <<>>,
    <<"M","i","a","m","i">>,
    <<"L","e"," ","M","i","a","m","i">>,
    <<"M","i","a","m","i"," ","N","o","r","d">>,
    <<"M","i","a","m","i","-","N","o","r","d">>,
    <<"M","i","a","m","i"," ","P","a","r","k">>,
    <<"M","i","a","m","i"," ","T","r","a","i","l">>,
    <<"b"," ","b"," ","b">>,
    <<"b"," ","b"," ","c","b">>,
    <<"E","d","e","l","w","e","i","s","s">> }

SimilarDifficulties == {
    <<None, None>>,
    <<<<"e","a","s","y">>, <<"e","a","s","y">>>>,
    <<<<"e","a","s","y">>, <<"e","x","p","e","r","t">>>> }

InitSimilar ==
    /\ trails = <<>>
    /\ pc = "compare"
    /\ args \in {[name1 |-> a, name2 |-> b, difficulty1 |-> d[1], difficulty2 |-> d[2]] :
                    a \in SimilarNames, b \in SimilarNames, d \in SimilarDifficulties}
    /\ ret = None

\* _names_similar(name1, name2, difficulty1, difficulty2)
NamesSimilarCall ==
    /\ pc = "compare"
    /\ pc' = "compared"
    /\ ret' = [similar |-> NamesSimilar(args.name1, args.name2,
                                        args.difficulty1, args.difficulty2)]
    /\ UNCHANGED <<trails, args>>

NextSimilar == NamesSimilarCall

SpecSimilar == InitSimilar /\ [][NextSimilar]_vars

(***************************************************************************)
(* SpecAsync: fetch_trails as a task of the event loop.  The task gives    *)
(* up control at its awaits (_query_overpass, asyncio.sleep); match_trail  *)
(* is a plain function with no await and runs between two of them.  args   *)
(* keeps the catalog held when the refresh started and the last catalog    *)
(* _parse_trails returned; ret the catalog read by the last match_trail    *)
(* call since the refresh started and where fetch_trails stood at that     *)
(* call.                                                                   *)
(***************************************************************************)
\* elements of a response in SpecAsync
MaxAsyncElements == 2

AsyncPool == {element \in ElementPool : element.id \in {7, 9}}

AsyncResponses == Lists(AsyncPool, MaxAsyncElements)

AsyncRecords == {
    [trail_name |-> <<"M","i","a","m","i">>, trail_number |-> None, difficulty |-> None],
    [trail_name |-> <<"M","i","a","m","y">>, trail_number |-> <<"5">>, difficulty |-> None],
    [trail_name |-> <<>>, trail_number |-> <<>>,
     difficulty |-> <<"i","n","t","e","r","m","e","d","i","a","t","e">>] }

InitAsync ==
    /\ trails = <<>>
    /\ pc = "idle"
    /\ args = [previous |-> <<>>, parsed |-> <<>>]
    /\ ret = [seen |-> <<>>, at |-> "idle", record |-> None, result |-> NoMatch]

\* fetch_trails is called and reaches the first await
FetchTrailsStart ==
    /\ pc = "idle"
    /\ pc' = "query_1"
    /\ args' = [previous |-> trails, parsed |-> trails]
    /\ ret' = [seen |-> trails, at |-> "idle", record |-> None, result |-> NoMatch]
    /\ UNCHANGED trails

\* the awaited query gives no data or raises: sleep and retry after the
\* first attempt, return {} after the second
QueryOverpassFails ==
    /\ pc \in {"query_1", "query_2"}
    /\ pc' = IF pc = "query_1" THEN "sleep" ELSE "idle"
    /\ UNCHANGED <<trails, args, ret>>

\* await asyncio.sleep(3) is over: the second attempt
SleepOver ==
    /\ pc = "sleep"
    /\ pc' = "query_2"
    /\ UNCHANGED <<trails, args, ret>>

\* a refresh that fills self.trails element by element, giving up control
\* before the last element is in
QueryOverpassReturnsInPlace ==
    /\ pc \in {"query_1", "query_2"}
    /\ \E response \in AsyncResponses, n \in 0..MaxAsyncElements :
          /\ n <= Len(response)
          /\ trails' = ParseTrails(SubSeq(response, 1, n))
          /\ args' = [args EXCEPT !.parsed = ParseTrails(response)]
    /\ pc' = "idle"
    /\ UNCHANGED ret

\* the awaited query returns a response: _parse_trails builds a local dict,
\* one assignment stores it in self.trails, fetch_trails returns
QueryOverpassReturns ==
    /\ pc \in {"query_1", "query_2"}
    /\ \E response \in AsyncResponses :
          /\ trails' = ParseTrails(response)
          /\ args' = [args EXCEPT !.parsed = trails']
    /\ pc' = "idle"
    /\ UNCHANGED ret

\* match_trail runs from call to return while fetch_trails is idle or
\* suspended at an await
MatchTrailAsync ==
    /\ \E record \in AsyncRecords :
          ret' = [seen   |-> trails,
                  at     |-> pc,
                  record |-> record,
                  result |-> MatchTrail(trails, record.trail_name, record.trail_number,
                                        record.difficulty)]
    /\ UNCHANGED <<trails, pc, args>>

NextAsync ==
    \/ FetchTrailsStart
    \/ QueryOverpassFails
    \/ SleepOver
    \/ QueryOverpassReturns
    \/ MatchTrailAsync

SpecAsync == InitAsync /\ [][NextAsync]_vars

(***************************************************************************)
(* SpecFetch: one fetch_trails call after another, step by step.  args     *)
(* keeps, for the call under way, the catalog held when it started, the    *)
(* value of the loop variable attempt, the number of _query_overpass calls *)
(* issued, the outcome of each and the response that was parsed; ret is    *)
(* the value returned, empty until pc = "returned".  _query_overpass ends  *)
(* within its 90 s timeout and asyncio.sleep(3) ends, which is what the    *)
(* fairness conditions say.                                                *)
(***************************************************************************)
NoCall == [previous |-> <<>>, attempt |-> 0, queries |-> 0, outcomes |-> <<>>,
           response |-> <<>>]

InitFetch ==
    /\ trails = <<>>
    /\ pc = "idle"
    /\ args = NoCall
    /\ ret = <<>>

\* fetch_trails is called: attempt = 0 and the first _query_overpass is awaited
FetchCalled ==
    /\ pc = "idle"
    /\ pc' = "query"
    /\ args' = [NoCall EXCEPT !.previous = trails, !.queries = 1]
    /\ ret' = <<>>
    /\ UNCHANGED trails

\* a third attempt after two failures
QueryNoDataThreeAttempts ==
    /\ pc = "query"
    /\ args' = [args EXCEPT !.outcomes = Append(@, "no_data")]
    /\ IF args.attempt < 2
       THEN pc' = "sleep" /\ ret' = ret
       ELSE pc' = "returned" /\ ret' = <<>>
    /\ UNCHANGED trails

\* _query_overpass returns None (HTTP error, timeout, client error) or a
\* falsy body: sleep and retry after the first attempt, leave the loop and
\* return {} after the second
QueryNoData ==
    /\ pc = "query"
    /\ args' = [args EXCEPT !.outcomes = Append(@, "no_data")]
    /\ IF args.attempt < 1
       THEN pc' = "sleep" /\ ret' = ret
       ELSE pc' = "returned" /\ ret' = <<>>
    /\ UNCHANGED trails

\* a failed refresh that empties self.trails
QueryParseRaisesClearing ==
    /\ pc = "query"
    /\ args' = [args EXCEPT !.outcomes = Append(@, "parse_error")]
    /\ IF args.attempt < 1
       THEN pc' = "sleep" /\ ret' = ret
       ELSE pc' = "returned" /\ ret' = <<>>
    /\ trails' = <<>>

\* _query_overpass returns a body and _parse_trails raises: the except
\* clause sleeps and retries after the first attempt, returns {} after the
\* second; self.trails was not assigned
QueryParseRaises ==
    /\ pc = "query"
    /\ args' = [args EXCEPT !.outcomes = Append(@, "parse_error")]
    /\ IF args.attempt < 1
       THEN pc' = "sleep" /\ ret' = ret
       ELSE pc' = "returned" /\ ret' = <<>>
    /\ UNCHANGED trails

\* _query_overpass returns a body that parses: self.trails is assigned and
\* returned
QueryParsed ==
    /\ pc = "query"
    /\ \E response \in AsyncResponses :
          /\ trails' = ParseTrails(response)
          /\ args' = [args EXCEPT !.outcomes = Append(@, "parsed"), !.response = response]
    /\ ret' = trails'
    /\ pc' = "returned"

\* asyncio.sleep(3) is over: continue with the next attempt
SleepDone ==
    /\ pc = "sleep"
    /\ pc' = "query"
    /\ args' = [args EXCEPT !.attempt = @ + 1, !.queries = @ + 1]
    /\ UNCHANGED <<trails, ret>>

\* the caller has the returned value
FetchReturned ==
    /\ pc = "returned"
    /\ pc' = "idle"
    /\ UNCHANGED <<trails, args, ret>>

QueryCompletes == QueryNoData \/ QueryParseRaises \/ QueryParsed

NextFetch ==
    \/ FetchCalled
    \/ QueryNoData
    \/ QueryParseRaises
    \/ QueryParsed
    \/ SleepDone
    \/ FetchReturned

SpecFetch ==
    /\ InitFetch
    /\ [][NextFetch]_vars
    /\ WF_pc(QueryCompletes)
    /\ WF_pc(SleepDone)

(***************************************************************************)
(* SpecSetup: async_setup_entry of the integration followed by that of the *)
(* sensor platform.  trails is the catalog of the OSMTrailData object the  *)
(* coordinator holds; args keeps the outcome of the OSM fetch and of the   *)
(* first refresh, the trails of coordinator.data in iteration order and    *)
(* whether hass.data holds the coordinator; ret is the list of trail       *)
(* sensors given to async_add_entities.                                    *)
(***************************************************************************)
\* str(n) of a non-negative integer
RECURSIVE Str(_)
Str(n) ==
    LET digit == <<"0","1","2","3","4","5","6","7","8","9">>[(n % 10) + 1]
    IN  IF n < 10 THEN <<digit>> ELSE Str(n \div 10) \o <<digit>>

\* the characters the pattern [^a-z0-9_] leaves in place
SafeChars == {LowerChars[i] : i \in 1..26} \cup Digits \cup {"_"}

\* re.sub(r"[^a-z0-9_]", "_", s)
SubUnsafe(s) == [i \in 1..Len(s) |-> IF s[i] \in SafeChars THEN s[i] ELSE "_"]

\* re.sub(r"_+", "_", s)
RECURSIVE SubUnderscores(_)
SubUnderscores(s) ==
    IF Len(s) <= 1 THEN s
    ELSE IF s[1] = "_" /\ s[2] = "_" THEN SubUnderscores(Tail(s))
    ELSE <<s[1]>> \o SubUnderscores(Tail(s))

\* s.strip("_")
StripUnderscores(s) ==
    LET solid == {i \in 1..Len(s) : s[i] # "_"}
    IN  IF solid = {} THEN <<>> ELSE SubSeq(s, Min(solid), Max(solid))

\* the sensor id made from the trail's number and name
NameSensorId(trail_number, trail_name) ==
    LET safe_name == StripUnderscores(SubUnderscores(SubUnsafe(Lower(trail_name))))
    IN  IF Truthy(trail_number)
        THEN <<"t","r","a","i","l","_">> \o trail_number \o <<"_">> \o safe_name
        ELSE <<"t","r","a","i","l","_">> \o safe_name

\* the sensor id made from the id of the matched way
OsmSensorId(osm_id) == <<"t","r","a","i","l","_","o","s","m","_">> \o Str(osm_id)

\* BromontSensorBase.__init__: f"ski_bromont_{sensor_type}"
UniqueId(sensor_type) == <<"s","k","i","_","b","r","o","m","o","n","t","_">> \o sensor_type

\* BromontTrailSensor.__init__ with the catalog d, and the keys that
\* extra_state_attributes adds under `if self._osm_data`
TrailSensor(d, area, trail) ==
    Bind(MatchTrail(d, trail.name, trail.number, trail.difficulty), LAMBDA osm_data :
    Bind(osm_data.tier # "NoMatch", LAMBDA matched :
    Bind(IF matched THEN osm_data.entry.osm_id ELSE 0, LAMBDA osm_id :
        [area           |-> area,
         trail          |-> trail,
         matched        |-> matched,
         osm_id         |-> osm_id,
         unique_id      |-> UniqueId(IF matched /\ osm_id # 0
                                     THEN OsmSensorId(osm_id)
                                     ELSE NameSensorId(trail.number, trail.name)),
         osm_attributes |-> IF matched THEN {"osm_id", "osm_url"} ELSE {}])))

\* trails of coordinator.data at setup
MaxSetupTrails == 2

SetupAreas == {"Versant du Village", "Versant du Lac"}

\* scraped trails: one the catalog may hold under its name and ref, one with
\* a numeral after that name and no number, two unknown to the catalog
\* whose names differ in one punctuation mark
SetupTrails == {
    [number |-> <<"5">>, name |-> <<"M","i","a","m","i">>,
     difficulty |-> <<"i","n","t","e","r","m","e","d","i","a","t","e">>],
    [number |-> None, name |-> <<"M","i","a","m","i"," ","2">>,
     difficulty |-> <<"i","n","t","e","r","m","e","d","i","a","t","e">>],
    [number |-> <<"1","2">>, name |-> <<"C","o","u","p","e","-","V","e","n","t">>,
     difficulty |-> None],
    [number |-> <<"1","2">>, name |-> <<"C","o","u","p","e"," ","V","e","n","t">>,
     difficulty |-> None] }

\* by_area is a dict of lists: the trails of one area follow one another
Grouped(l) ==
    \A i, j, k \in 1..Len(l) :
        (i < j /\ j < k /\ l[i].area = l[k].area) => l[j].area = l[i].area

SetupData ==
    {l \in Lists({[area |-> a, trail |-> t] : a \in SetupAreas, t \in SetupTrails},
                 MaxSetupTrails) : Grouped(l)}

Way(id) == CHOOSE element \in ElementPool : element.id = id

\* Overpass responses at setup: no element, one way, two ways
SetupResponses == {<<>>, <<Way(7)>>, <<Way(9)>>, <<Way(7), Way(9)>>}

InitSetup ==
    /\ trails = <<>>
    /\ pc = "setup"
    /\ args = [osm |-> "pending", refresh |-> "pending", data |-> <<>>, registered |-> FALSE]
    /\ ret = <<>>

\* a setup that gives up when the OSM fetch brought no catalog
SetupFetchTrailsStrict ==
    /\ pc = "setup"
    /\ \/ \E response \in SetupResponses :
            /\ trails' = ParseTrails(response)
            /\ args' = [args EXCEPT !.osm = "parsed"]
            /\ pc' = IF trails' = <<>> THEN "not_ready" ELSE "first_refresh"
       \/ /\ trails' = trails
          /\ args' = [args EXCEPT !.osm = "failed"]
          /\ pc' = "not_ready"
    /\ UNCHANGED ret

\* async_setup_entry up to the return of fetch_trails: the scraper and the
\* OSMTrailData object are created and the catalog is fetched once; a fetch
\* that failed leaves the catalog empty and the setup goes on
SetupFetchTrails ==
    /\ pc = "setup"
    /\ \/ \E response \in SetupResponses :
            /\ trails' = ParseTrails(response)
            /\ args' = [args EXCEPT !.osm = "parsed"]
       \/ /\ trails' = trails
          /\ args' = [args EXCEPT !.osm = "failed"]
    /\ pc' = "first_refresh"
    /\ UNCHANGED ret

\* the coordinator is created and its first refresh returns the scraped
\* data: the coordinator is stored in hass.data and the sensor platform is
\* forwarded
FirstRefreshSucceeds ==
    /\ pc = "first_refresh"
    /\ \E data \in SetupData :
          args' = [args EXCEPT !.refresh = "ok", !.data = data, !.registered = TRUE]
    /\ pc' = "forward"
    /\ UNCHANGED <<trails, ret>>

\* the scrape gives nothing: _async_update_data raises UpdateFailed and
\* async_config_entry_first_refresh raises out of async_setup_entry
FirstRefreshFails ==
    /\ pc = "first_refresh"
    /\ args' = [args EXCEPT !.refresh = "failed"]
    /\ pc' = "not_ready"
    /\ UNCHANGED <<trails, ret>>

\* async_setup_entry of the sensor platform: one BromontTrailSensor for
\* each trail of each area
SensorSetup ==
    /\ pc = "forward"
    /\ ret' = [i \in 1..Len(args.data) |->
                  TrailSensor(trails, args.data[i].area, args.data[i].trail)]
    /\ pc' = "done"
    /\ UNCHANGED <<trails, args>>

NextSetup ==
    \/ SetupFetchTrails
    \/ FirstRefreshSucceeds
    \/ FirstRefreshFails
    \/ SensorSetup

SpecSetup == InitSetup /\ [][NextSetup]_vars

(***************************************************************************)
(* Properties of the resolver (Spec).                                      *)
(***************************************************************************)
\* the keys the fuzzy loop treats as name keys: those not starting with "ref_"
PrimaryKeys(d) == {k \in Keys(d) : ~StartsWith(k, RefPrefix)}

\* the key "ref_" + trail_number of the record of the call
RecordRefKey == RefPrefix \o args.trail_number

\* C1 as stated: the record's name with only its area suffix stripped,
\* lowercased and trimmed
AreaStrippedKey(trail_name) == Strip(Lower(StripAreaSuffix(trail_name)))

C2_AsStated ==
    (/\ pc = "match_trail"
     /\ ExactKey(args.trail_name) \notin PrimaryKeys(trails)
     /\ Truthy(args.trail_number)
     /\ RecordRefKey \in Keys(trails))
        => /\ ret.tier = "Reference"
           /\ ret.entry = Get(trails, RecordRefKey)

\* C3: with an empty catalog match_trail returns None (no match) for every
\* record, whatever its name, trail_number and difficulty, and raises nothing.
C3_EmptyCatalogNoMatch ==
    (pc = "match_trail" /\ trails = <<>>) => ret = NoMatch

\* the empty name with a trail_number and a difficulty against the empty catalog
C3_Witness ==
    /\ pc = "match_trail"
    /\ trails = <<>>
    /\ args.trail_name = <<>>
    /\ Truthy(args.trail_number)
    /\ Truthy(args.difficulty)
    /\ ret = NoMatch

\* q is a numeral: a non-empty run of digits
IsNumeral(q) == q # <<>> /\ \A i \in 1..Len(q) : q[i] \in Digits

\* the record of the call is named as the catalog item at position i, followed
\* by a space and a numeral, and carries that item's difficulty
NamedWithNumeral(i) ==
    LET osm_trail == trails[i].info
        n         == Len(osm_trail.name)
    IN  /\ trails[i].key \in PrimaryKeys(trails)
        /\ Truthy(osm_trail.difficulty)
        /\ args.difficulty = osm_trail.difficulty
        /\ Len(args.trail_name) > n + 1
        /\ Take(args.trail_name, n + 1) = osm_trail.name \o <<" ">>
        /\ IsNumeral(Drop(args.trail_name, n + 1))

C5_AsStated ==
    (pc = "normalize" /\ args.calls = 2) => ret = args.name

\* C25, as stated: the first prefix in list order that the name starts with
\* is removed, once, and every listed prefix, the multi-word forms such as
\* "piste de " included, is removed in full when the name starts with it: a
\* listed prefix followed by the plain word "Miami" is resolved to "Miami".
C25_AsStated ==
    (pc = "normalize" /\ args.calls = 1) =>
        \A i \in 1..Len(PrefixesToRemove) :
            (/\ StartsWith(Lower(args.name), PrefixesToRemove[i])
             /\ Drop(args.name, Len(PrefixesToRemove[i])) = <<"M","i","a","m","i">>)
                => args.resolved = <<"M","i","a","m","i">>

\* C6: for s without "|" and any t, normalize(s + " | " + t) = normalize(s):
\* only the segment before the first "|" matters.
C6_AreaSuffix ==
    (pc = "normalize" /\ args.calls = 1) =>
        \A i \in 1..(Len(args.name) - 2) :
            (/\ SubSeq(args.name, i, i + 2) = <<" ","|"," ">>
             /\ ~Contains(Take(args.name, i - 1), <<"|">>))
                => ret = Normalize(Take(args.name, i - 1))

\* a name s + " | " + t with s and t not blank, t holding a second "|"
C6_Witness ==
    /\ pc = "normalize"
    /\ args.calls = 1
    /\ \E i \in 2..(Len(args.name) - 3) :
            /\ SubSeq(args.name, i, i + 2) = <<" ","|"," ">>
            /\ ~Contains(Take(args.name, i - 1), <<"|">>)
            /\ Contains(Drop(args.name, i + 2), <<"|">>)
            /\ Strip(Take(args.name, i - 1)) # <<>>
            /\ ret = Normalize(Take(args.name, i - 1))
            /\ ret # <<>>

\* q is a Roman numeral as the code reads one: a non-empty run of I, V, X
IsRoman(q) == q # <<>> /\ \A i \in 1..Len(q) : q[i] \in RomanUpper

\* q is one of the trailing qualifiers
IsQualifier(q) ==
    \/ IsNumeral(q)
    \/ IsRoman(q)
    \/ Lower(q) \in {<<"b","i","s">>, <<"t","e","r">>}

\* n is a bare prefix word: n and a space make up one of the prefixes
IsPrefixWord(n) ==
    \E i \in 1..Len(PrefixesToRemove) : Lower(Strip(n)) \o <<" ">> = PrefixesToRemove[i]

\* n, once its area suffix and prefix are removed, ends in no qualifier itself
EndsUnqualified(n) ==
    RemoveQualifiers(RemovePrefix(StripAreaSuffix(n))) = RemovePrefix(StripAreaSuffix(n))

NoDifficulties == args.difficulty1 = None /\ args.difficulty2 = None

\* C8, as stated: score(s, s) = 1.0 for every non-empty s, without difficulty
\* labels.
C8_AsStated ==
    (pc = "scored" /\ NoDifficulties /\ args.name1 = args.name2 /\ args.name1 # <<>>)
        => ret.score = One

\* C9: without difficulty labels, score("", x) = 0.0 and score(x, "") = 0.0
\* for every string x.
C9_Degenerate ==
    (pc = "scored" /\ NoDifficulties /\ (args.name1 = <<>> \/ args.name2 = <<>>))
        => ret.score = Zero

\* the empty name scored against a name of two words
C9_Witness ==
    /\ pc = "scored"
    /\ NoDifficulties
    /\ args.name1 = <<>>
    /\ Cardinality(Tokens(args.name2)) = 2
    /\ ret.score = Zero

\* C10: the token, edit-distance and phonetic similarities give the same
\* value with their arguments swapped, and score(a, b, dA, dB) =
\* score(b, a, dB, dA).
C10_Symmetric ==
    pc = "scored" =>
        /\ ret.token = TokenSimilarity(args.name2, args.name1)
        /\ ret.lev = LevenshteinSimilarity(args.name2, args.name1)
        /\ ret.phonetic = PhoneticSimilarity(args.name2, args.name1)
        /\ ret.score = CalculateSimilarityScore(args.name2, args.name1,
                                                args.difficulty2, args.difficulty1)

\* two names of different lengths that share a token, with two different
\* difficulty labels; every signal strictly between 0 and 1
C10_Witness ==
    /\ pc = "scored"
    /\ Len(args.name1) < Len(args.name2)
    /\ Truthy(args.difficulty1) /\ Truthy(args.difficulty2)
    /\ args.difficulty1 # args.difficulty2
    /\ \A x \in {ret.token, ret.lev, ret.phonetic, ret.score} :
            FracLess(Zero, x) /\ FracLess(x, One)

\* a value of the closed interval [0, 1]
InUnitInterval(x) == ~FracLess(x, Zero) /\ ~FracLess(One, x)

\* C11: for all name pairs and all present or absent difficulty labels, the
\* composite score and each of its signals (edit distance, token overlap,
\* phonetic, and the difficulty signal when it takes part) lie in [0, 1].
C11_UnitInterval ==
    pc = "scored" =>
        /\ InUnitInterval(ret.score)
        /\ InUnitInterval(ret.lev)
        /\ InUnitInterval(ret.token)
        /\ InUnitInterval(ret.phonetic)
        /\ (Truthy(args.difficulty1) /\ Truthy(args.difficulty2))
                => InUnitInterval(ret.difficulty)

\* two names with no letter in common and of different lengths, both with a
\* difficulty label: the edit distance is the longer length and the score is
\* the bare difficulty weight
C11_Witness ==
    /\ pc = "scored"
    /\ Len(args.name1) > Len(args.name2) /\ args.name2 # <<>>
    /\ ret.lev = Zero
    /\ Truthy(args.difficulty1) /\ Truthy(args.difficulty2)
    /\ ret.difficulty = One
    /\ FracLess(Zero, ret.score) /\ FracLess(ret.score, One)

\* C15: match_trail is read-only with respect to the catalog: whatever the
\* record and the tier of the outcome (Exact, Reference, Fuzzy or no match),
\* the catalog's keys and every field of every entry are the same after the
\* call as before it.
C15_MatchReadOnly ==
    [][(pc = "idle" /\ pc' = "match_trail") => trails' = trails]_vars

\* a fuzzy match returned from a catalog that holds both a name key and a
\* reference key
C15_Witness ==
    /\ pc = "match_trail"
    /\ ret.tier = "Fuzzy"
    /\ PrimaryKeys(trails) # {}
    /\ Keys(trails) # PrimaryKeys(trails)
    /\ ret.entry \in {trails[i].info : i \in 1..Len(trails)}

\* the record's name as the fuzzy loop receives it
RecordNormalizedName == NormalizeTrailName(args.trail_name)

\* the positions of the catalog the fuzzy loop admits for the record of the
\* call: name keys whose entry passes _names_similar
Candidates ==
    {i \in 1..Len(trails) :
        /\ trails[i].key \in PrimaryKeys(trails)
        /\ NamesSimilar(RecordNormalizedName, trails[i].info.name,
                        args.difficulty, trails[i].info.difficulty)}

\* the score the fuzzy loop computes for the entry at position i
EntryScore(i) ==
    CalculateSimilarityScore(NormalizeForComparison(RecordNormalizedName),
                             NormalizeForComparison(trails[i].info.name),
                             args.difficulty, trails[i].info.difficulty)

\* C18, as stated: when the fuzzy tier is reached, match_trail returns a
\* fuzzy result whenever at least one entry is a candidate, whatever the
\* candidate's score, returns no match exactly when no entry is a candidate,
\* and the confidence is the returned entry's composite score.
C18_AsStated ==
    (pc = "match_trail" /\ ret.tier \in {"Fuzzy", "NoMatch"}) =>
        /\ Candidates # {} => ret.tier = "Fuzzy"
        /\ ret.tier = "NoMatch" <=> Candidates = {}
        /\ ret.tier = "Fuzzy" =>
              \E i \in Candidates : ret.entry = trails[i].info /\ ret.score = EntryScore(i)

\* C19: the entry the fuzzy tier returns is a candidate of greatest composite
\* score, every candidate being scored whatever rule admitted it, and among
\* candidates of that score it is the first in the catalog's iteration
\* order.
C19_FuzzySelection ==
    (pc = "match_trail" /\ ret.tier = "Fuzzy") =>
        Bind([i \in 1..Len(trails) |-> IF i \in Candidates THEN EntryScore(i) ELSE Zero],
             LAMBDA scores :
                \E i \in Candidates :
                    /\ ret.entry = trails[i].info
                    /\ ret.score = scores[i]
                    /\ \A j \in Candidates : ~FracLess(scores[i], scores[j])
                    /\ \A j \in Candidates : j < i => FracLess(scores[j], scores[i]))

\* two candidates of different ways with the same score for a named record:
\* the first in iteration order is returned
C19_Witness ==
    /\ pc = "match_trail"
    /\ ret.tier = "Fuzzy"
    /\ args.trail_name # <<>>
    /\ \E i, j \in Candidates :
          /\ i < j
          /\ trails[i].info.osm_id # trails[j].info.osm_id
          /\ EntryScore(i) = EntryScore(j)
          /\ ret.entry = trails[i].info

\* a later candidate with a greater score is returned
C19_WitnessLater ==
    /\ pc = "match_trail"
    /\ ret.tier = "Fuzzy"
    /\ \E i, j \in Candidates :
          /\ i < j
          /\ FracLess(EntryScore(i), EntryScore(j))
          /\ ret.entry = trails[j].info

\* 4 * edit + 3 * token + 2 * phonetic of the call, in tenths
NameSignals ==
    WeightedSum(<< <<ret.lev, 4>>, <<ret.token, 3>>, <<ret.phonetic, 2>> >>)

\* C21: the composite score is (0.4 * edit + 0.3 * token + 0.2 * phonetic)
\* / 0.9 when either difficulty label is absent or empty, and (0.4 * edit +
\* 0.3 * token + 0.2 * phonetic + 0.1 * difficulty) / 1.0 when both are
\* present.
C21_Renormalized ==
    pc = "scored" =>
        IF Truthy(args.difficulty1) /\ Truthy(args.difficulty2)
        THEN ret.score = Frac(NameSignals[1] * ret.difficulty[2]
                                + ret.difficulty[1] * NameSignals[2],
                              NameSignals[2] * ret.difficulty[2] * 10)
        ELSE ret.score = Frac(NameSignals[1], NameSignals[2] * 9)

\* one label present and the other empty, on two different names that share
\* a token: the score is the sum of the name signals over 0.9
C21_Witness ==
    /\ pc = "scored"
    /\ args.difficulty1 = <<>> /\ Truthy(args.difficulty2)
    /\ args.name1 # args.name2
    /\ FracLess(Zero, ret.token)
    /\ FracLess(Frac(NameSignals[1], NameSignals[2] * 10), ret.score)

\* C26, as stated: for every entry E stored under a name key of the catalog,
\* match_trail called with E's name, no trail number and E's difficulty
\* returns E, whatever other entries the catalog holds.
C26_AsStated ==
    pc = "match_trail" =>
        \A i \in 1..Len(trails) :
            (/\ trails[i].key \in PrimaryKeys(trails)
             /\ args.trail_name = trails[i].info.name
             /\ ~Truthy(args.trail_number)
             /\ args.difficulty = trails[i].info.difficulty)
                => ret.entry = trails[i].info

(***************************************************************************)
(* Properties of fetch_trails (SpecFetch).                                 *)
(***************************************************************************)
\* the last query of the call gave a body that parsed
LastParsed ==
    args.outcomes # <<>> /\ args.outcomes[Len(args.outcomes)] = "parsed"

\* at most two queries, the second after a failed first, and the value
\* returned is the catalog of the last response or {}
FetchBounds ==
    /\ args.queries <= 2
    /\ (args.queries = 2) => (args.outcomes # <<>> /\ args.outcomes[1] \in Failures)
    /\ (pc = "returned") =>
          IF LastParsed
          THEN ret = ParseTrails(args.response)
          ELSE ret = <<>> /\ args.queries = 2

\* a call that failed has returned {} and self.trails is what it was
FailedKeepsCatalog ==
    (pc = "returned" /\ ~LastParsed) => (ret = <<>> /\ trails = args.previous)

\* C27: a fetch_trails call issues at most two queries, the second only
\* after the first gave no data or its parsing raised; the value it returns
\* is the catalog parsed from the response of its last query or the empty
\* dict; and every call that has started returns.
C27_BoundedFetch ==
    /\ []FetchBounds
    /\ (pc \in {"query", "sleep"}) ~> (pc = "returned")

\* the parsing of the first response raised and the second query gave a
\* catalog, which is returned
C27_Witness ==
    /\ pc = "returned"
    /\ args.queries = 2
    /\ args.outcomes = <<"parse_error", "parsed">>
    /\ ret # <<>>
    /\ ret = trails

\* C28: a call whose two attempts failed returns the empty dict and leaves
\* self.trails as it was when the call started; self.trails changes only in
\* the step that stores the catalog parsed from a whole response.
C28_FailedFetch ==
    /\ []FailedKeepsCatalog
    /\ [][(trails' # trails) =>
              (/\ pc = "query" /\ pc' = "returned"
               /\ trails' = ParseTrails(args'.response))]_vars

\* a call that started with a catalog and failed once for lack of data and
\* once in parsing: {} is returned and the catalog is still there
C28_Witness ==
    /\ pc = "returned"
    /\ args.outcomes = <<"no_data", "parse_error">>
    /\ args.previous # <<>>
    /\ trails = args.previous
    /\ ret = <<>>

(***************************************************************************)
(* Properties of the platform setup (SpecSetup).                           *)
(***************************************************************************)
\* the scraped records behind two sensors differ in area, number or name
DistinctRecords(i, j) ==
    \/ ret[i].area # ret[j].area
    \/ ret[i].trail.number # ret[j].trail.number
    \/ ret[i].trail.name # ret[j].trail.name

\* C29, as stated: within one platform setup, two trail sensors made from
\* distinct scraped records have distinct unique ids, whether the id comes
\* from a matched OSM entry or from the trail's number and name.
C29_AsStated ==
    pc = "done" =>
        \A i, j \in 1..Len(ret) :
            (i # j /\ DistinctRecords(i, j)) => ret[i].unique_id # ret[j].unique_id

\* C30: the setup goes on to the first refresh, the registration of the
\* coordinator and the sensor platform whether or not the OSM fetch gave a
\* catalog, and stops only when the first refresh fails; the coordinator is
\* in hass.data only once the first refresh has succeeded; with an empty
\* catalog there is one sensor for each scraped trail, unmatched, with the id
\* made from its number and name and no OSM attribute.
C30_SetupWithoutCatalog ==
    /\ pc = "not_ready" => args.refresh = "failed"
    /\ args.registered <=> (args.refresh = "ok" /\ pc \in {"forward", "done"})
    /\ (pc = "done" /\ trails = <<>>) =>
          /\ Len(ret) = Len(args.data)
          /\ \A i \in 1..Len(ret) :
                /\ ret[i].area = args.data[i].area
                /\ ret[i].trail = args.data[i].trail
                /\ ~ret[i].matched
                /\ ret[i].osm_attributes = {}
                /\ ret[i].unique_id =
                      UniqueId(NameSensorId(ret[i].trail.number, ret[i].trail.name))

\* the OSM fetch failed, the first refresh brought two trails, one with a
\* number and one without, and both sensors are there
C30_Witness ==
    /\ pc = "done"
    /\ args.osm = "failed"
    /\ trails = <<>>
    /\ args.registered
    /\ Len(ret) = 2
    /\ Truthy(ret[1].trail.number) /\ ~Truthy(ret[2].trail.number)
    /\ ret[1].unique_id # ret[2].unique_id

(***************************************************************************)
(* Properties of the difficulty signal (SpecDifficulty).                   *)
(***************************************************************************)
\* the categories whose spellings contain the label, lowercased and trimmed
TiersOf(label) == {c \in 1..4 : Strip(Lower(label)) \in DifficultyMap[c]}

BothPresent == Truthy(args.difficulty1) /\ Truthy(args.difficulty2)

\* C22 as stated: the signal is 1.0 if both labels resolve to the same one
\* of the four categories and 0.0 in every other case.
C22_AsStated ==
    (pc = "difficulty_scored" /\ BothPresent) =>
        ret.score = IF TiersOf(args.difficulty1) \cap TiersOf(args.difficulty2) # {}
                    THEN One ELSE Zero

\* C22: with both labels present and non-empty, the difficulty signal is
\* 1.0 if the labels are equal once lowercased and trimmed or resolve to the
\* same one of the four categories, and 0.0 in every other case; swapping
\* the labels gives the same signal.
C22_DifficultySignal ==
    (pc = "difficulty_scored" /\ BothPresent) =>
        /\ ret.score = IF \/ Strip(Lower(args.difficulty1)) = Strip(Lower(args.difficulty2))
                          \/ TiersOf(args.difficulty1) \cap TiersOf(args.difficulty2) # {}
                       THEN One ELSE Zero
        /\ ret.swapped = ret.score

\* two spellings of one label that is in no category: the signal is 1.0
C22_Witness ==
    /\ pc = "difficulty_scored"
    /\ BothPresent
    /\ args.difficulty1 # args.difficulty2
    /\ TiersOf(args.difficulty1) = {} /\ TiersOf(args.difficulty2) = {}
    /\ ret.score = One

(***************************************************************************)
(* Properties of the catalog build (SpecBuild).                            *)
(***************************************************************************)
\* the name and the ref _parse_trails reads from an element's tags
NameOf(element) == Strip(FirstName(element.tags))

RefOf(element) == Strip(TagOr(element.tags.ref, <<>>))

\* the element is a way of a listed piste:type
Recognized(element) ==
    element.type = "way" /\ TagOr(element.tags.piste_type, <<>>) \in PisteTypes

\* the element reaches the two assignments to trails
Included(element) == Recognized(element) /\ NameOf(element) # <<>>

NameKey(element) == Lower(NameOf(element))

RefKey(element) == RefPrefix \o RefOf(element)

\* the element's trail_info is assigned to trails[key]
Writes(element, key) ==
    /\ Included(element)
    /\ \/ NameKey(element) = key
       \/ RefOf(element) # <<>> /\ RefKey(element) = key

\* C12, as stated: after any build, every entry reachable through a
\* reference key is also reachable, as the identical entry, through some
\* primary name key of the same catalog.
C12_AsStated ==
    pc = "parsed" =>
        \A k \in Keys(ret) \ PrimaryKeys(ret) :
            \E n \in PrimaryKeys(ret) : Get(ret, n) = Get(ret, k)

\* C13: when several elements of one response yield the same name key, the
\* entry under that key after the build is the one of the last of them in
\* the processed sequence; likewise for a shared reference key.
C13_LastWriteWins ==
    pc = "parsed" =>
        \A i \in 1..Len(args.elements) :
            LET element == args.elements[i]
                later   == (i + 1)..Len(args.elements)
            IN  Included(element) =>
                  /\ (\A j \in later : ~Writes(args.elements[j], NameKey(element)))
                        => Get(ret, NameKey(element)).obj = i
                  /\ (/\ RefOf(element) # <<>>
                      /\ \A j \in later : ~Writes(args.elements[j], RefKey(element)))
                        => Get(ret, RefKey(element)).obj = i

\* three ways with different ids: the third has the name key of the first
\* and the reference key of the second, and is found under both keys
C13_Witness ==
    /\ pc = "parsed"
    /\ Len(args.elements) = 3
    /\ \A i \in 1..3 : Included(args.elements[i])
    /\ args.elements[1].id # args.elements[3].id
    /\ args.elements[2].id # args.elements[3].id
    /\ NameKey(args.elements[1]) = NameKey(args.elements[3])
    /\ RefOf(args.elements[2]) # <<>>
    /\ RefKey(args.elements[2]) = RefKey(args.elements[3])
    /\ Get(ret, NameKey(args.elements[1])).osm_id = args.elements[3].id
    /\ Get(ret, RefKey(args.elements[2])).osm_id = args.elements[3].id

C23_CategoryFilter ==
    pc = "parsed" =>
        /\ \A n \in 1..Len(ret) :
              /\ ret[n].info.obj \in 1..Len(args.elements)
              /\ args.elements[ret[n].info.obj].tags.piste_type \in PisteTypes
              /\ ret[n].info.piste_type = args.elements[ret[n].info.obj].tags.piste_type
        /\ \A i \in 1..Len(args.elements) :
              args.elements[i].tags.piste_type \notin PisteTypes
                  => \A n \in 1..Len(ret) : ret[n].info.obj # i

\* a named way without piste:type that has a ref, a named way of an unlisted
\* piste:type and an included way: the catalog holds the third alone
C23_Witness ==
    /\ pc = "parsed"
    /\ Len(args.elements) = 3
    /\ \E i, j, k \in 1..3 :
          /\ args.elements[i].type = "way" /\ args.elements[i].tags.piste_type = None
          /\ NameOf(args.elements[i]) # <<>> /\ RefOf(args.elements[i]) # <<>>
          /\ args.elements[j].type = "way" /\ NameOf(args.elements[j]) # <<>>
          /\ args.elements[j].tags.piste_type \notin PisteTypes \cup {None}
          /\ Included(args.elements[k])
          /\ \A n \in 1..Len(ret) : ret[n].info.obj = k
    /\ ret # <<>>

\* a tag value that is present and not blank
Usable(value) == value # None /\ Strip(value) # <<>>

\* the first of name, piste:name and ref that gives a name, trimmed
FirstUsableName(tags) ==
    IF Usable(tags.name) THEN Strip(tags.name)
    ELSE IF Usable(tags.piste_name) THEN Strip(tags.piste_name)
    ELSE IF Usable(tags.ref) THEN Strip(tags.ref)
    ELSE <<>>

\* C24, as stated: the name of an included way is the first non-empty value
\* among name, piste:name and ref, and the way is skipped if and only if
\* none of the three yields a non-empty name.  Stated for the last element
\* of the response, whose entries no later element replaces.
C24_AsStated ==
    (pc = "parsed" /\ args.elements # <<>>) =>
        LET last    == Len(args.elements)
            element == args.elements[last]
            name    == FirstUsableName(element.tags)
        IN  Recognized(element) =>
                IF name = <<>>
                THEN \A n \in 1..Len(ret) : ret[n].info.obj # last
                ELSE /\ Lower(name) \in Keys(ret)
                     /\ Get(ret, Lower(name)).obj = last
                     /\ Get(ret, Lower(name)).name = name

\* C20, as stated: for any built catalog the fuzzy loop, which takes the
\* keys not starting with "ref_", evaluates every entry stored under a name
\* key exactly once and no slot stored only under a reference key: no
\* element with a usable name is left out of the scan because of the
\* spelling of its name, and no name key is a reference key.
C20_AsStated ==
    pc = "parsed" =>
        /\ \A i \in 1..Len(args.elements) :
              Included(args.elements[i]) => NameKey(args.elements[i]) \in PrimaryKeys(ret)
        /\ \A k \in PrimaryKeys(ret) :
              \E i \in 1..Len(args.elements) :
                  Included(args.elements[i]) /\ NameKey(args.elements[i]) = k
        /\ \A m, n \in 1..Len(ret) : ret[m].key = ret[n].key => m = n
        /\ \A i, j \in 1..Len(args.elements) :
              (/\ Included(args.elements[i]) /\ Included(args.elements[j])
               /\ RefOf(args.elements[j]) # <<>>)
                  => NameKey(args.elements[i]) # RefKey(args.elements[j])

(***************************************************************************)
(* Properties of the admission test (SpecSimilar).                         *)
(***************************************************************************)
\* the two names of the call in comparison form (n1 and n2 of _names_similar)
ComparedNames == <<NormalizeForComparison(args.name1), NormalizeForComparison(args.name2)>>

\* rules (a) to (c) on the compared names
AdmittedByName(n1, n2) ==
    \/ n1 = n2
    \/ Contains(n2, n1) \/ Contains(n1, n2)
    \/ RemoveCommonSuffixes(n1) = RemoveCommonSuffixes(n2)

\* rule (d): the composite score of the compared names is at least 0.75
AdmittedByScore(n1, n2) ==
    ~FracLess(CalculateSimilarityScore(n1, n2, args.difficulty1, args.difficulty2),
              Threshold)

\* C17: in the fuzzy tier an entry is a candidate if and only if, for the
\* record's name and the entry's name in comparison form, (a) they are
\* equal, or (b) one is a substring of the other, or (c) they are equal
\* once _remove_common_suffixes is applied to both, or (d) their composite
\* similarity score is at least 0.75.
C17_Admission ==
    pc = "compared" =>
        (ret.similar <=> \/ AdmittedByName(ComparedNames[1], ComparedNames[2])
                        \/ AdmittedByScore(ComparedNames[1], ComparedNames[2]))

\* two different names, neither inside the other nor equal without their
\* suffixes, admitted by a score of exactly 0.75
C17_Witness ==
    /\ pc = "compared"
    /\ ret.similar
    /\ ~AdmittedByName(ComparedNames[1], ComparedNames[2])
    /\ CalculateSimilarityScore(ComparedNames[1], ComparedNames[2],
                                args.difficulty1, args.difficulty2) = Threshold

(***************************************************************************)
(* Properties of the refresh (SpecAsync).                                  *)
(***************************************************************************)
\* C16: under any interleaving of a fetch_trails refresh with match_trail
\* calls, every call reads, from its first access to its return, either the
\* whole catalog held before the refresh or the whole catalog _parse_trails
\* built from the response, never a partly built one.
C16_AtomicPublish ==
    [][(pc' = pc /\ args' = args /\ trails' = trails) =>
          /\ ret'.seen \in {args.previous, args.parsed}
          /\ ret'.result = MatchTrail(ret'.seen, ret'.record.trail_name,
                                      ret'.record.trail_number, ret'.record.difficulty)]_vars

\* a call made while the second query of a refresh was awaited resolved its
\* record in the previous catalog; the refresh has since stored a different
\* catalog
C16_Witness ==
    /\ pc = "idle"
    /\ ret.at = "query_2"
    /\ ret.result.tier = "Exact"
    /\ ret.seen = args.previous
    /\ args.previous # <<>>
    /\ trails = args.parsed
    /\ trails # args.previous
    /\ trails # <<>>

====
